---- MODULE Spec2Model ----
(***************************************************************************)
(* A model of ggez_inputty: the InputHandler of src/src/input_handler.rs   *)
(* (definition table, binding table, dynamics list, trigger queue, the     *)
(* event adapters and update) and the virtual axis of                      *)
(* src/src/virtual_axis.rs.                                                *)
(*                                                                         *)
(* Callbacks are application code.  A logical-input behavior is one of     *)
(* Behaviors: "b1" and "b2" set a flag of their own in the application     *)
(* state and return Ok (as Input::Exit of examples/basic.rs does), "fail"  *)
(* returns Err and leaves the state alone (as Input::ReturnError does).    *)
(* A dynamics callback is one of DynBehaviors.                             *)
(*                                                                         *)
(* Ghost state, which the program does not hold: every queued trigger      *)
(* carries the identity tid = <<event number, wheel axis, wheel tick,      *)
(* index in the binding list>> of the place it was enqueued at; invoked is *)
(* the log of all callback invocations; result is what the last update     *)
(* returned; bindlog lists the bind calls in call order; last names the    *)
(* last operation.                                                         *)
(*                                                                         *)
(* The virtual axis holds an f32.  The model holds the value as an integer *)
(* number of units of 1 / (AxisResolution * 32767): 1.0 is One, the raw    *)
(* analog value r is r * AxisResolution, and the arithmetic is exact (the  *)
(* rounding of f32, infinities and NaN are left out).  axis_last is ghost: *)
(* the last axis operation, the value and phase before it and its          *)
(* arguments; pos_held and neg_held are ghost: whether the last digital    *)
(* event of the positive / negative input was a press; axis_result is      *)
(* ghost: what the last axis operation returned ("Ok" for the InputtyResult *)
(* Ok(()), "unit" for axis_update, which returns nothing).                  *)
(***************************************************************************)
EXTENDS Integers, Sequences, FiniteSets, TLC

\* ------------------------------------------------------------ bounds
MaxBinds == 2
MaxBindsAll == 1
MaxDynamics == 2
MaxEvents == 2
MaxUpdates == 2
MaxQueue == 4
MaxWheel == 2
MaxWheelEvents == 1

\* ------------------------------------------------------------ inputs
Logicals == {"L1", "L2"}
Behaviors == {"b1", "b2", "fail"}
DynBehaviors == {"dyn", "dyn2", "dynfail"}
Keycodes == {"K"}
MouseButtons == {"Left"}
Buttons == {"A"}
Axes == {"LeftX"}
Instances == {0, 1}
RawValues == {-32768, 16384}
MotionSamples == {<<3, 4, 1, -1>>}

\* The virtual axis: i16::max_value(), the units of the model per 1 / 32767, 1.0,
\* the raw analog values and the deltas (0.0, 0.1, 0.2, 3.0 and -0.1) drawn.
I16Max == 32767
AxisResolution == 10
One == AxisResolution * I16Max
AxisRawSamples == {-32768, -32767, -16384, 0, 16384, 32767}
DeltaSamples == {0, One \div 10, One \div 5, 3 * One, -(One \div 10)}

\* PhysicalInput, one record shape for every variant (unused fields hold "-" / FALSE).
Phys(kind, id, flag) == [kind |-> kind, id |-> id, flag |-> flag]
CAxis(axis) == Phys("CAxis", axis, FALSE)
CButton(button) == Phys("CButton", button, FALSE)
MButton(button) == Phys("MButton", button, FALSE)
MWheelX(positive) == Phys("MWheelX", "-", positive)
MWheelY(positive) == Phys("MWheelY", "-", positive)
MMotion == Phys("MMotion", "-", FALSE)
Key(keycode, repeat) == Phys("Key", keycode, repeat)
NoPhysical == Phys("-", "-", FALSE)

PhysicalInput ==
    {CAxis(a) : a \in Axes} \cup {CButton(b) : b \in Buttons}
    \cup {MButton(b) : b \in MouseButtons}
    \cup {MWheelX(d) : d \in BOOLEAN} \cup {MWheelY(d) : d \in BOOLEAN}
    \cup {MMotion}
    \cup {Key(k, r) : k \in Keycodes, r \in BOOLEAN}

\* PhysicalInputValue, one record shape for every variant.
AxisValue(instance, raw) == [kind |-> "Axis", inst |-> instance, down |-> FALSE, num |-> <<raw>>]
ButtonValue(instance, down) == [kind |-> "Button", inst |-> instance, down |-> down, num |-> <<>>]
XYValue(instance, xy) == [kind |-> "XY", inst |-> instance, down |-> FALSE, num |-> xy]
NoValue == [kind |-> "-", inst |-> 0, down |-> FALSE, num |-> <<>>]

VARIABLES definitions, dynamics, bindings, input_queue, state,
          invoked, result, nevents, nupdates, bindlog, last,
          axis_value, axis_phase, axis_last, pos_held, neg_held, axis_result

handler_vars == <<definitions, dynamics, bindings, input_queue, state,
                  invoked, result, nevents, nupdates, bindlog, last>>

axis_vars == <<axis_value, axis_phase, axis_last, pos_held, neg_held, axis_result>>

vars == <<handler_vars, axis_vars>>

\* ------------------------------------------------------------ helpers
RECURSIVE SumLens(_, _)
SumLens(f, dom) ==
    IF dom = {} THEN 0
    ELSE LET p == CHOOSE x \in dom : TRUE
         IN Len(f[p]) + SumLens(f, dom \ {p})

NumBinds == SumLens(bindings, DOMAIN bindings)

\* The last operation: its name, the physical input, logical input and callback it
\* was given, its
\* integer arguments, and the number of triggers it enqueued (for update: the
\* length of the queue it started from).
Op(op, physical, logical, callback, args, n) ==
    [op |-> op, physical |-> physical, logical |-> logical, callback |-> callback,
     args |-> args, n |-> n]

\* The last axis operation: its name, the value and the phase before it, the input
\* value and the deltas it was given.
AxisOp(op, before, value, deltas) ==
    [op |-> op, before |-> before, phase |-> axis_phase, value |-> value,
     deltas |-> deltas]

\* InputHandler::new, VirtualAxisState::new
Init ==
    /\ definitions = <<>>
    /\ dynamics = <<>>
    /\ bindings = <<>>
    /\ input_queue = <<>>
    /\ state = {}
    /\ invoked = <<>>
    /\ result = "none"
    /\ nevents = 0
    /\ nupdates = 0
    /\ bindlog = <<>>
    /\ last = Op("new", NoPhysical, "-", "-", <<>>, 0)
    /\ axis_value = 0
    /\ axis_phase = "Ignore"
    /\ axis_last = AxisOp("new", 0, NoValue, <<>>)
    /\ pos_held = FALSE
    /\ neg_held = FALSE
    /\ axis_result = "none"

\* ------------------------------------------------------------ builder
\* An insert that keeps the entry a logical input already has.
DefineKeepFirst(defs, logical, callback) ==
    [l \in (DOMAIN defs) \cup {logical} |->
        IF l \in DOMAIN defs THEN defs[l] ELSE callback]

\* HashMap::insert: the entry of logical is created or overwritten.
DefineInsert(defs, logical, callback) ==
    [l \in (DOMAIN defs) \cup {logical} |->
        IF l = logical THEN callback ELSE defs[l]]

\* InputHandler::define
Define(logical, callback) ==
    /\ definitions' = DefineInsert(definitions, logical, callback)
    /\ last' = Op("define", NoPhysical, logical, callback, <<>>, 0)
    /\ UNCHANGED <<dynamics, bindings, input_queue, state, invoked, result,
                   nevents, nupdates, bindlog, axis_vars>>

\* InputHandler::add_dynamics
AddDynamics(callback) ==
    /\ dynamics' = Append(dynamics, callback)
    /\ last' = Op("add_dynamics", NoPhysical, "-", callback, <<>>, 0)
    /\ UNCHANGED <<definitions, bindings, input_queue, state, invoked, result,
                   nevents, nupdates, bindlog, axis_vars>>

\* A bind that leaves out a logical input the list already holds.
BindPushDedup(b, physical, logical) ==
    [p \in (DOMAIN b) \cup {physical} |->
        IF p = physical
        THEN (IF p \in DOMAIN b
              THEN (IF \E i \in 1..Len(b[p]) : b[p][i] = logical
                    THEN b[p] ELSE Append(b[p], logical))
              ELSE <<logical>>)
        ELSE b[p]]

\* A bind that puts the logical input at the front of the list.
BindPushFront(b, physical, logical) ==
    [p \in (DOMAIN b) \cup {physical} |->
        IF p = physical
        THEN (IF p \in DOMAIN b THEN <<logical>> \o b[p] ELSE <<logical>>)
        ELSE b[p]]

\* entry(physical).or_insert_with(Vec::new).push(logical)
BindPush(b, physical, logical) ==
    [p \in (DOMAIN b) \cup {physical} |->
        IF p = physical
        THEN (IF p \in DOMAIN b THEN Append(b[p], logical) ELSE <<logical>>)
        ELSE b[p]]

\* InputHandler::bind
Bind(physical, logical) ==
    /\ bindings' = BindPush(bindings, physical, logical)
    /\ bindlog' = Append(bindlog, [physical |-> physical, logical |-> logical])
    /\ last' = Op("bind", physical, logical, "-", <<>>, 0)
    /\ UNCHANGED <<definitions, dynamics, input_queue, state, invoked, result,
                   nevents, nupdates, axis_vars>>

\* ------------------------------------------------------------ callbacks
\* A logical-input behavior called on (state, physical, value).
CallBehavior(callback, st, physical, value) ==
    IF callback = "fail"
    THEN [state |-> st, ok |-> FALSE]
    ELSE [state |-> st \cup {callback}, ok |-> TRUE]

\* A dynamics callback called on (state).
CallDynamics(callback, st) ==
    IF callback = "dynfail"
    THEN [state |-> st, ok |-> FALSE]
    ELSE [state |-> st \cup {callback}, ok |-> TRUE]

\* An entry of the invocation log: the callback that ran on trigger t in this
\* update and whether it returned Ok.  A popped trigger whose logical input has
\* no definition is logged with kind "skipped".
Invocation(kind, callback, t, ok) ==
    [kind |-> kind, callback |-> callback, logical |-> t.logical,
     physical |-> t.physical, value |-> t.value, tid |-> t.tid, k |-> t.k,
     ok |-> ok, upd |-> nupdates + 1]

\* The place of the i-th dynamics callback in the log.
DynamicsTrigger(i) ==
    [logical |-> "-", physical |-> NoPhysical, value |-> NoValue,
     tid |-> <<0, 0, 0, i>>, k |-> 0]

\* ------------------------------------------------------------ update
\* A dynamics loop that runs every callback and reports the error at the end.
RECURSIVE RunDynamicsToEnd(_, _)
RunDynamicsToEnd(i, acc) ==
    IF i > Len(dynamics) THEN acc
    ELSE LET r == CallDynamics(dynamics[i], acc.state)
             e == Invocation("dynamics", dynamics[i], DynamicsTrigger(i), r.ok)
         IN RunDynamicsToEnd(i + 1, [state |-> r.state, log |-> Append(acc.log, e),
                                     ok |-> acc.ok /\ r.ok])

\* for callback in &self.dynamics { callback(state)?; }
RECURSIVE RunDynamics(_, _)
RunDynamics(i, acc) ==
    IF i > Len(dynamics) THEN acc
    ELSE LET r == CallDynamics(dynamics[i], acc.state)
             e == Invocation("dynamics", dynamics[i], DynamicsTrigger(i), r.ok)
         IN IF r.ok
            THEN RunDynamics(i + 1, [state |-> r.state, log |-> Append(acc.log, e),
                                     ok |-> TRUE])
            ELSE [state |-> r.state, log |-> Append(acc.log, e), ok |-> FALSE]

\* A queue loop that returns an error at a logical input without definition.
RECURSIVE DrainUndefinedIsError(_, _, _)
DrainUndefinedIsError(queue, st, log) ==
    IF queue = <<>> THEN [queue |-> queue, state |-> st, log |-> log, ok |-> TRUE]
    ELSE LET t == Head(queue)
             rest == Tail(queue)
         IN IF t.logical \in DOMAIN definitions
            THEN LET r == CallBehavior(definitions[t.logical], st, t.physical, t.value)
                     e == Invocation("behavior", definitions[t.logical], t, r.ok)
                 IN IF r.ok
                    THEN DrainUndefinedIsError(rest, r.state, Append(log, e))
                    ELSE [queue |-> rest, state |-> r.state,
                          log |-> Append(log, e), ok |-> FALSE]
            ELSE [queue |-> rest, state |-> st,
                  log |-> Append(log, Invocation("skipped", "-", t, TRUE)),
                  ok |-> FALSE]

\* A queue loop that leaves the trigger whose behavior failed at the front.
RECURSIVE DrainKeepsFailing(_, _, _)
DrainKeepsFailing(queue, st, log) ==
    IF queue = <<>> THEN [queue |-> queue, state |-> st, log |-> log, ok |-> TRUE]
    ELSE LET t == Head(queue)
             rest == Tail(queue)
         IN IF t.logical \in DOMAIN definitions
            THEN LET r == CallBehavior(definitions[t.logical], st, t.physical, t.value)
                     e == Invocation("behavior", definitions[t.logical], t, r.ok)
                 IN IF r.ok
                    THEN DrainKeepsFailing(rest, r.state, Append(log, e))
                    ELSE [queue |-> queue, state |-> r.state,
                          log |-> Append(log, e), ok |-> FALSE]
            ELSE DrainKeepsFailing(rest, st,
                                   Append(log, Invocation("skipped", "-", t, TRUE)))

\* while let Some(..) = self.input_queue.pop_front() { .. callback(..)?; }
RECURSIVE Drain(_, _, _)
Drain(queue, st, log) ==
    IF queue = <<>> THEN [queue |-> queue, state |-> st, log |-> log, ok |-> TRUE]
    ELSE LET t == Head(queue)
             rest == Tail(queue)
         IN IF t.logical \in DOMAIN definitions
            THEN LET r == CallBehavior(definitions[t.logical], st, t.physical, t.value)
                     e == Invocation("behavior", definitions[t.logical], t, r.ok)
                 IN IF r.ok
                    THEN Drain(rest, r.state, Append(log, e))
                    ELSE [queue |-> rest, state |-> r.state,
                          log |-> Append(log, e), ok |-> FALSE]
            ELSE Drain(rest, st, Append(log, Invocation("skipped", "-", t, TRUE)))

\* InputHandler::update
Update ==
    /\ LET d == RunDynamics(1, [state |-> state, log |-> invoked, ok |-> TRUE])
           r == IF d.ok THEN Drain(input_queue, d.state, d.log)
                ELSE [queue |-> input_queue, state |-> d.state, log |-> d.log,
                      ok |-> FALSE]
       IN /\ input_queue' = r.queue
          /\ state' = r.state
          /\ invoked' = r.log
          /\ result' = IF r.ok THEN "Ok" ELSE "Err"
          /\ last' = Op("update", NoPhysical, "-", "-", <<>>, Len(input_queue))
    /\ nupdates' = nupdates + 1
    /\ UNCHANGED <<definitions, dynamics, bindings, nevents, bindlog, axis_vars>>

\* ------------------------------------------------------------ event adapters
\* A lookup that compares kind and id of the key and leaves out its flag.
LookupIgnoringFlag(physical) ==
    LET same == {p \in DOMAIN bindings : p.kind = physical.kind /\ p.id = physical.id}
    IN IF physical \in DOMAIN bindings THEN bindings[physical]
       ELSE IF same # {} THEN bindings[CHOOSE p \in same : TRUE]
       ELSE <<>>

\* self.bindings.get(&physical): the bound list, or nothing to iterate over.
Lookup(physical) ==
    IF physical \in DOMAIN bindings THEN bindings[physical] ELSE <<>>

\* for logical in bindings { push_back((logical.clone(), physical, value)) },
\* as the list of triples pushed; axis and tick place the pass inside its event,
\* tid and k (the length of the list iterated) are ghost fields.
Pushes(physical, value, axis, tick) ==
    [i \in 1..Len(Lookup(physical)) |->
        [logical |-> Lookup(physical)[i], physical |-> physical, value |-> value,
         tid |-> <<nevents + 1, axis, tick, i>>, k |-> Len(Lookup(physical))]]

\* Immediate dispatch: the behaviors of the pushed triples run inside the adapter.
EnqueueDispatch(op, physical, args, pushed) ==
    /\ LET r == Drain(pushed, state, invoked)
       IN /\ state' = r.state
          /\ invoked' = r.log
    /\ nevents' = nevents + 1
    /\ last' = Op(op, physical, "-", "-", args, Len(pushed))
    /\ UNCHANGED <<definitions, dynamics, bindings, input_queue, result, nupdates,
                   bindlog, axis_vars>>

\* The adapters share their tail: the pushed triples go to the back of the queue.
Enqueue(op, physical, args, pushed) ==
    /\ input_queue' = input_queue \o pushed
    /\ nevents' = nevents + 1
    /\ last' = Op(op, physical, "-", "-", args, Len(pushed))
    /\ UNCHANGED <<definitions, dynamics, bindings, state, invoked, result, nupdates,
                   bindlog, axis_vars>>

\* InputHandler::mouse_button_down_event
MouseButtonDownEvent(button) ==
    Enqueue("mouse_button_down", MButton(button), <<>>,
            Pushes(MButton(button), ButtonValue(0, TRUE), 0, 1))

\* InputHandler::mouse_button_up_event
MouseButtonUpEvent(button) ==
    Enqueue("mouse_button_up", MButton(button), <<>>,
            Pushes(MButton(button), ButtonValue(0, FALSE), 0, 1))

\* InputHandler::mouse_motion_event
MouseMotionEvent(xy) ==
    Enqueue("mouse_motion", MMotion, xy, Pushes(MMotion, XYValue(0, xy), 0, 1))

\* A wheel step that passes over the bound list once, whatever its magnitude.
WheelPushesOnce(physical, axis, tick, n) ==
    IF tick > n THEN <<>>
    ELSE Pushes(physical, ButtonValue(0, TRUE), axis, tick)

\* A wheel step that goes logical input by logical input, n ticks for each.
WheelPushesLogicalMajor(physical, axis, tick, n) ==
    IF tick > n THEN <<>>
    ELSE [j \in 1..(Len(Lookup(physical)) * n) |->
             Pushes(physical, ButtonValue(0, TRUE), axis,
                    ((j - 1) % n) + 1)[((j - 1) \div n) + 1]]

\* while n > 0 { for logical in bindings { push_back(..) } n -= 1 }
RECURSIVE WheelPushes(_, _, _, _)
WheelPushes(physical, axis, tick, n) ==
    IF tick > n THEN <<>>
    ELSE Pushes(physical, ButtonValue(0, TRUE), axis, tick)
         \o WheelPushes(physical, axis, tick + 1, n)

\* One axis of the wheel: the positive identity for v > 0, the negative one for v < 0.
WheelAxis(positive, negative, axis, v) ==
    IF v > 0 THEN WheelPushes(positive, axis, 1, v)
    ELSE IF v < 0 THEN WheelPushes(negative, axis, 1, -v)
    ELSE <<>>

\* InputHandler::mouse_wheel_event
MouseWheelEvent(x, y) ==
    Enqueue("mouse_wheel", NoPhysical, <<x, y>>,
            WheelAxis(MWheelX(TRUE), MWheelX(FALSE), 0, x)
            \o WheelAxis(MWheelY(TRUE), MWheelY(FALSE), 1, y))

\* InputHandler::key_down_event
KeyDownEvent(keycode, repeat) ==
    Enqueue("key_down", Key(keycode, repeat), <<>>,
            Pushes(Key(keycode, repeat), ButtonValue(0, TRUE), 0, 1))

\* A key-up adapter that delivers the value of key-down.
KeyUpEventAsDown(keycode, repeat) ==
    Enqueue("key_up", Key(keycode, repeat), <<>>,
            Pushes(Key(keycode, repeat), ButtonValue(0, TRUE), 0, 1))

\* InputHandler::key_up_event
KeyUpEvent(keycode, repeat) ==
    Enqueue("key_up", Key(keycode, repeat), <<>>,
            Pushes(Key(keycode, repeat), ButtonValue(0, FALSE), 0, 1))

\* InputHandler::controller_button_down_event
ControllerButtonDownEvent(button, instance_id) ==
    Enqueue("controller_button_down", CButton(button), <<instance_id>>,
            Pushes(CButton(button), ButtonValue(instance_id, TRUE), 0, 1))

\* InputHandler::controller_button_up_event
ControllerButtonUpEvent(button, instance_id) ==
    Enqueue("controller_button_up", CButton(button), <<instance_id>>,
            Pushes(CButton(button), ButtonValue(instance_id, FALSE), 0, 1))

\* InputHandler::controller_axis_event
ControllerAxisEvent(axis, value, instance_id) ==
    Enqueue("controller_axis", CAxis(axis), <<value, instance_id>>,
            Pushes(CAxis(axis), AxisValue(instance_id, value), 0, 1))

\* ------------------------------------------------------------ virtual axis
\* A clamp that bounds the value from above only.
ClampUpper(val, min, max) == IF val < max THEN val ELSE max

\* nalgebra::clamp(val, min, max)
Clamp(val, min, max) ==
    IF val > min THEN (IF val < max THEN val ELSE max) ELSE min

\* A match whose Relax arm steps by relax-delta without the snap to 0.0.
AxisStepRelaxOvershoots(val, phase, delta, delta_reverse, delta_relax) ==
    CASE phase = "Relax" ->
            IF val > 0 THEN val - delta_relax ELSE val + delta_relax
      [] phase = "Increase" ->
            IF val > 0 THEN val + delta ELSE val + delta_reverse
      [] phase = "Decrease" ->
            IF val < 0 THEN val - delta ELSE val - delta_reverse
      [] phase = "Ignore" -> val

\* A match whose Increase arm takes the value 0.0 for positive.
AxisStepIncreaseAtZero(val, phase, delta, delta_reverse, delta_relax) ==
    CASE phase = "Relax" ->
            IF val > delta_relax THEN val - delta_relax
            ELSE IF val < -delta_relax THEN val + delta_relax
            ELSE 0
      [] phase = "Increase" ->
            IF val >= 0 THEN val + delta ELSE val + delta_reverse
      [] phase = "Decrease" ->
            IF val < 0 THEN val - delta ELSE val - delta_reverse
      [] phase = "Ignore" -> val

\* A match whose Decrease arm takes the value 0.0 for negative.
AxisStepDecreaseAtZero(val, phase, delta, delta_reverse, delta_relax) ==
    CASE phase = "Relax" ->
            IF val > delta_relax THEN val - delta_relax
            ELSE IF val < -delta_relax THEN val + delta_relax
            ELSE 0
      [] phase = "Increase" ->
            IF val > 0 THEN val + delta ELSE val + delta_reverse
      [] phase = "Decrease" ->
            IF val <= 0 THEN val - delta ELSE val - delta_reverse
      [] phase = "Ignore" -> val

\* The match of axis_update: the value before the clamp.
AxisStep(val, phase, delta, delta_reverse, delta_relax) ==
    CASE phase = "Relax" ->
            IF val > delta_relax THEN val - delta_relax
            ELSE IF val < -delta_relax THEN val + delta_relax
            ELSE 0
      [] phase = "Increase" ->
            IF val > 0 THEN val + delta ELSE val + delta_reverse
      [] phase = "Decrease" ->
            IF val < 0 THEN val - delta ELSE val - delta_reverse
      [] phase = "Ignore" -> val

\* A tick that leaves phase Relax for Ignore once the value has come to rest.
AxisUpdateSettles(delta, delta_reverse, delta_relax) ==
    /\ axis_value' = Clamp(AxisStep(axis_value, axis_phase, delta, delta_reverse,
                                    delta_relax), -One, One)
    /\ axis_phase' = IF axis_phase = "Relax" /\ axis_value' = 0 THEN "Ignore"
                     ELSE axis_phase
    /\ axis_result' = "unit"
    /\ axis_last' = AxisOp("update", axis_value, NoValue,
                           <<delta, delta_reverse, delta_relax>>)
    /\ UNCHANGED <<pos_held, neg_held, handler_vars>>

\* axis_update (VirtualAxisState::update calls it with delta_time * each delta)
AxisUpdate(delta, delta_reverse, delta_relax) ==
    /\ axis_value' = Clamp(AxisStep(axis_value, axis_phase, delta, delta_reverse,
                                    delta_relax), -One, One)
    /\ axis_result' = "unit"
    /\ axis_last' = AxisOp("update", axis_value, NoValue,
                           <<delta, delta_reverse, delta_relax>>)
    /\ UNCHANGED <<axis_phase, pos_held, neg_held, handler_vars>>

\* A normalisation by the magnitude of i16::min_value().
NormalizeByMin(raw_axis) ==
    raw_axis * AxisResolution - (raw_axis * AxisResolution) \div (I16Max + 1)

\* raw_axis as f32 / i16::max_value() as f32, in units of the model
Normalize(raw_axis) == raw_axis * AxisResolution

\* An analog input that takes a button for a full deflection of the axis.
AxisInputAnalogTakesButton(value) ==
    /\ IF value.kind = "Axis"
       THEN /\ axis_phase' = "Ignore"
            /\ axis_value' = Normalize(value.num[1])
       ELSE IF value.kind = "Button"
       THEN /\ axis_phase' = "Ignore"
            /\ axis_value' = (IF value.down THEN One ELSE 0)
       ELSE UNCHANGED <<axis_phase, axis_value>>
    /\ axis_result' = "Ok"
    /\ axis_last' = AxisOp("input_analog", axis_value, value, <<>>)
    /\ UNCHANGED <<pos_held, neg_held, handler_vars>>

\* axis_input_analog (VirtualAxisState::input_analog)
AxisInputAnalog(value) ==
    /\ IF value.kind = "Axis"
       THEN /\ axis_phase' = "Ignore"
            /\ axis_value' = Normalize(value.num[1])
       ELSE UNCHANGED <<axis_phase, axis_value>>
    /\ axis_result' = "Ok"
    /\ axis_last' = AxisOp("input_analog", axis_value, value, <<>>)
    /\ UNCHANGED <<pos_held, neg_held, handler_vars>>

\* A positive input whose release relaxes the axis whatever the phase.
AxisInputPosReleaseUnguarded(value) ==
    /\ IF value.kind = "Button"
       THEN IF value.down THEN axis_phase' = "Increase"
            ELSE axis_phase' = "Relax"
       ELSE UNCHANGED axis_phase
    /\ axis_result' = "Ok"
    /\ axis_last' = AxisOp("input_pos", axis_value, value, <<>>)
    /\ pos_held' = IF value.kind = "Button" THEN value.down ELSE pos_held
    /\ UNCHANGED <<axis_value, neg_held, handler_vars>>

\* axis_input_pos (VirtualAxisState::input_pos)
AxisInputPos(value) ==
    /\ IF value.kind = "Button"
       THEN IF value.down THEN axis_phase' = "Increase"
            ELSE IF axis_phase # "Decrease" THEN axis_phase' = "Relax"
            ELSE UNCHANGED axis_phase
       ELSE UNCHANGED axis_phase
    /\ axis_result' = "Ok"
    /\ axis_last' = AxisOp("input_pos", axis_value, value, <<>>)
    /\ pos_held' = IF value.kind = "Button" THEN value.down ELSE pos_held
    /\ UNCHANGED <<axis_value, neg_held, handler_vars>>

\* A negative input whose press is left out while the axis increases.
AxisInputNegPressGuarded(value) ==
    /\ IF value.kind = "Button"
       THEN IF value.down /\ axis_phase # "Increase" THEN axis_phase' = "Decrease"
            ELSE IF ~value.down /\ axis_phase # "Increase" THEN axis_phase' = "Relax"
            ELSE UNCHANGED axis_phase
       ELSE UNCHANGED axis_phase
    /\ axis_result' = "Ok"
    /\ axis_last' = AxisOp("input_neg", axis_value, value, <<>>)
    /\ neg_held' = IF value.kind = "Button" THEN value.down ELSE neg_held
    /\ UNCHANGED <<axis_value, pos_held, handler_vars>>

\* axis_input_neg (VirtualAxisState::input_neg)
AxisInputNeg(value) ==
    /\ IF value.kind = "Button"
       THEN IF value.down THEN axis_phase' = "Decrease"
            ELSE IF axis_phase # "Increase" THEN axis_phase' = "Relax"
            ELSE UNCHANGED axis_phase
       ELSE UNCHANGED axis_phase
    /\ axis_result' = "Ok"
    /\ axis_last' = AxisOp("input_neg", axis_value, value, <<>>)
    /\ neg_held' = IF value.kind = "Button" THEN value.down ELSE neg_held
    /\ UNCHANGED <<axis_value, pos_held, handler_vars>>

\* The values an axis input callback may be handed.
AxisInputValues ==
    {AxisValue(0, r) : r \in AxisRawSamples} \cup {ButtonValue(0, b) : b \in BOOLEAN}
    \cup {XYValue(0, xy) : xy \in MotionSamples}

\* ------------------------------------------------------------ specification
\* The bounds of a run: binds, dynamics, events and updates so far, queue length.
Bounded(binds, dyns, events) ==
    /\ NumBinds <= binds
    /\ Len(dynamics) <= dyns
    /\ nevents <= events
    /\ nupdates <= MaxUpdates
    /\ Len(input_queue) <= MaxQueue

KeyInputs == {Key(k, r) : k \in Keycodes, r \in BOOLEAN}

\* The dispatcher driven by key presses: the application defines behaviors and
\* binds keys at any time, the host delivers key-down events and calls update.
Next ==
    \/ \E l \in Logicals, b \in Behaviors : Define(l, b) /\ Bounded(MaxBinds, 0, MaxEvents)'
    \/ \E p \in KeyInputs, l \in Logicals : Bind(p, l) /\ Bounded(MaxBinds, 0, MaxEvents)'
    \/ Update /\ Bounded(MaxBinds, 0, MaxEvents)'
    \/ \E k \in Keycodes, r \in BOOLEAN : KeyDownEvent(k, r) /\ Bounded(MaxBinds, 0, MaxEvents)'

Spec == Init /\ [][Next]_vars

\* The whole adapter surface: the logical input L1 defined and bound to any
\* physical input, every adapter delivering events, wheel steps of at most one
\* notch.
NextAll ==
    \/ \E b \in Behaviors : Define("L1", b) /\ Bounded(MaxBindsAll, 0, MaxEvents)'
    \/ \E p \in PhysicalInput : Bind(p, "L1") /\ Bounded(MaxBindsAll, 0, MaxEvents)'
    \/ Update /\ Bounded(MaxBindsAll, 0, MaxEvents)'
    \/ \E b \in MouseButtons : MouseButtonDownEvent(b) /\ Bounded(MaxBindsAll, 0, MaxEvents)'
    \/ \E b \in MouseButtons : MouseButtonUpEvent(b) /\ Bounded(MaxBindsAll, 0, MaxEvents)'
    \/ \E xy \in MotionSamples : MouseMotionEvent(xy) /\ Bounded(MaxBindsAll, 0, MaxEvents)'
    \/ \E x \in -1..1, y \in -1..1 : MouseWheelEvent(x, y) /\ Bounded(MaxBindsAll, 0, MaxEvents)'
    \/ \E k \in Keycodes, r \in BOOLEAN : KeyDownEvent(k, r) /\ Bounded(MaxBindsAll, 0, MaxEvents)'
    \/ \E k \in Keycodes, r \in BOOLEAN : KeyUpEvent(k, r) /\ Bounded(MaxBindsAll, 0, MaxEvents)'
    \/ \E b \in Buttons, i \in Instances :
          ControllerButtonDownEvent(b, i) /\ Bounded(MaxBindsAll, 0, MaxEvents)'
    \/ \E b \in Buttons, i \in Instances :
          ControllerButtonUpEvent(b, i) /\ Bounded(MaxBindsAll, 0, MaxEvents)'
    \/ \E a \in Axes, v \in RawValues, i \in Instances :
          ControllerAxisEvent(a, v, i) /\ Bounded(MaxBindsAll, 0, MaxEvents)'

SpecAll == Init /\ [][NextAll]_vars

\* One virtual axis: input events of every kind of value and tick updates with any
\* three deltas, in any order.
NextAxis ==
    \/ \E d \in DeltaSamples, dr \in DeltaSamples, dx \in DeltaSamples :
          AxisUpdate(d, dr, dx)
    \/ \E v \in AxisInputValues : AxisInputAnalog(v)
    \/ \E v \in AxisInputValues : AxisInputPos(v)
    \/ \E v \in AxisInputValues : AxisInputNeg(v)

SpecAxis == Init /\ [][NextAxis]_vars

\* A tick of an axis in phase Relax with a relax-delta above 0.0.
RelaxTick ==
    \E d \in DeltaSamples, dr \in DeltaSamples, dx \in {x \in DeltaSamples : x > 0} :
        axis_phase = "Relax" /\ AxisUpdate(d, dr, dx)

\* One virtual axis left to relax: analog events and the release of the positive
\* input set a value and phase Relax; once the ticks have begun no input event
\* comes any more, and the host keeps ticking.
NextRelax ==
    \/ \E r \in AxisRawSamples :
          axis_last.op # "update" /\ AxisInputAnalog(AxisValue(0, r))
    \/ axis_last.op # "update" /\ AxisInputPos(ButtonValue(0, FALSE))
    \/ RelaxTick

SpecRelax == Init /\ [][NextRelax]_vars /\ WF_vars(RelaxTick)

\* One virtual axis driven by a pair of buttons alone: each button goes down when
\* it is up and up when it is down, tick updates in between.
NextDigital ==
    \/ \E d \in DeltaSamples, dr \in DeltaSamples, dx \in DeltaSamples :
          AxisUpdate(d, dr, dx)
    \/ \E b \in BOOLEAN : b # pos_held /\ AxisInputPos(ButtonValue(0, b))
    \/ \E b \in BOOLEAN : b # neg_held /\ AxisInputNeg(ButtonValue(0, b))

SpecDigital == Init /\ [][NextDigital]_vars

\* The dispatcher driven by the keyboard: behaviors that return Ok, bindings of
\* the key identities with either repeat flag, key-down and key-up events.
NextKeys ==
    \/ \E l \in Logicals : Define(l, "b1") /\ Bounded(MaxBinds, 0, MaxEvents)'
    \/ \E p \in KeyInputs, l \in Logicals : Bind(p, l) /\ Bounded(MaxBinds, 0, MaxEvents)'
    \/ Update /\ Bounded(MaxBinds, 0, MaxEvents)'
    \/ \E k \in Keycodes, r \in BOOLEAN : KeyDownEvent(k, r) /\ Bounded(MaxBinds, 0, MaxEvents)'
    \/ \E k \in Keycodes, r \in BOOLEAN : KeyUpEvent(k, r) /\ Bounded(MaxBinds, 0, MaxEvents)'

SpecKeys == Init /\ [][NextKeys]_vars

\* The dispatcher with dynamics: the application registers dynamics callbacks,
\* defines behaviors and binds one key, the host delivers presses of the key and
\* calls update.
NextDyn ==
    \/ \E l \in Logicals, b \in {"b1", "fail"} :
          Define(l, b) /\ Bounded(MaxBinds, MaxDynamics, MaxEvents)'
    \/ \E c \in DynBehaviors : AddDynamics(c) /\ Bounded(MaxBinds, MaxDynamics, MaxEvents)'
    \/ \E l \in Logicals :
          Bind(Key("K", FALSE), l) /\ Bounded(MaxBinds, MaxDynamics, MaxEvents)'
    \/ Update /\ Bounded(MaxBinds, MaxDynamics, MaxEvents)'
    \/ KeyDownEvent("K", FALSE) /\ Bounded(MaxBinds, MaxDynamics, MaxEvents)'

SpecDyn == Init /\ [][NextDyn]_vars

ButtonInputs ==
    {MButton(b) : b \in MouseButtons} \cup {Key(k, FALSE) : k \in Keycodes}
    \cup {CButton(b) : b \in Buttons}

\* The dispatcher driven by buttons: L1 defined and bound to a mouse button, a key
\* and a controller button, down and up events of the three.
NextButtons ==
    \/ Define("L1", "b1") /\ Bounded(MaxBinds, 0, MaxEvents)'
    \/ \E p \in ButtonInputs : Bind(p, "L1") /\ Bounded(MaxBinds, 0, MaxEvents)'
    \/ Update /\ Bounded(MaxBinds, 0, MaxEvents)'
    \/ \E b \in MouseButtons : MouseButtonDownEvent(b) /\ Bounded(MaxBinds, 0, MaxEvents)'
    \/ \E b \in MouseButtons : MouseButtonUpEvent(b) /\ Bounded(MaxBinds, 0, MaxEvents)'
    \/ \E k \in Keycodes : KeyDownEvent(k, FALSE) /\ Bounded(MaxBinds, 0, MaxEvents)'
    \/ \E k \in Keycodes : KeyUpEvent(k, FALSE) /\ Bounded(MaxBinds, 0, MaxEvents)'
    \/ \E b \in Buttons, i \in Instances :
          ControllerButtonDownEvent(b, i) /\ Bounded(MaxBinds, 0, MaxEvents)'
    \/ \E b \in Buttons, i \in Instances :
          ControllerButtonUpEvent(b, i) /\ Bounded(MaxBinds, 0, MaxEvents)'

SpecButtons == Init /\ [][NextButtons]_vars

WheelInputs == {MWheelX(d) : d \in BOOLEAN} \cup {MWheelY(d) : d \in BOOLEAN}

\* The dispatcher driven by the mouse wheel: behaviors that return Ok, bindings of
\* the four wheel identities, wheel events of up to MaxWheel notches per axis.
NextWheel ==
    \/ \E l \in Logicals : Define(l, "b1") /\ Bounded(MaxBinds, 0, MaxWheelEvents)'
    \/ \E p \in WheelInputs, l \in Logicals : Bind(p, l) /\ Bounded(MaxBinds, 0, MaxWheelEvents)'
    \/ Update /\ Bounded(MaxBinds, 0, MaxWheelEvents)'
    \/ \E x \in -MaxWheel..MaxWheel, y \in -MaxWheel..MaxWheel :
          MouseWheelEvent(x, y) /\ Bounded(MaxBinds, 0, MaxWheelEvents)'

SpecWheel == Init /\ [][NextWheel]_vars

\* ------------------------------------------------------------ reading the log
\* The positions of the log written by the update that ran last.
ThisUpdate == {i \in 1..Len(invoked) : invoked[i].upd = nupdates}

\* The positions of the log that hold a popped trigger (invoked or skipped).
Popped == {i \in 1..Len(invoked) : invoked[i].kind \in {"behavior", "skipped"}}

\* Two triggers enqueued by the same pass over one binding list.
SamePass(t, u) ==
    t.tid[1] = u.tid[1] /\ t.tid[2] = u.tid[2] /\ t.tid[3] = u.tid[3]

\* The number of positions of sequence s that satisfy Test.
CountIn(s, Test(_)) == Cardinality({i \in 1..Len(s) : Test(s[i])})

\* ------------------------------------------------------------ C1
\* C1: when a behavior returns an error during update, the behaviors of the other
\* logical inputs bound to the same physical event are still invoked by that
\* update: after an update, no trigger of another logical input of the event of a
\* failed invocation is left waiting in the queue.
C1_FailureKeepsSiblings ==
    last.op = "update" =>
        \A i \in ThisUpdate :
            (invoked[i].kind = "behavior" /\ ~invoked[i].ok) =>
                \A j \in 1..Len(input_queue) :
                    \/ input_queue[j].tid[1] # invoked[i].tid[1]
                    \/ input_queue[j].logical = invoked[i].logical

\* ------------------------------------------------------------ C2
\* C2: update returns Ok whatever the behaviors return: an update in which a
\* behavior returned an error has result Ok.
C2_UpdateReturnsOk ==
    (last.op = "update"
     /\ \E i \in ThisUpdate : invoked[i].kind = "behavior" /\ ~invoked[i].ok)
        => result = "Ok"

\* ------------------------------------------------------------ C3
\* The logical inputs bound to physical, in the order of the bind calls.
BindOrder(physical) ==
    LET calls == SelectSeq(bindlog, LAMBDA c : c.physical = physical)
    IN [i \in 1..Len(calls) |-> calls[i].logical]

\* Trigger t is the one of the tid[4]-th bind call on its physical input.
AtBindPlace(t) ==
    /\ t.tid[4] \in 1..Len(BindOrder(t.physical))
    /\ BindOrder(t.physical)[t.tid[4]] = t.logical

\* C3: the logical inputs bound to one physical input are invoked in bind order:
\* the i-th trigger of an event is the one of the i-th bind call on its physical
\* input; of two triggers of one event the one bound earlier is popped first, and
\* it is never still queued once the one bound later has been popped.
C3_BindOrderIsInvocationOrder ==
    /\ \A i \in 1..Len(input_queue) : AtBindPlace(input_queue[i])
    /\ \A i \in Popped : AtBindPlace(invoked[i])
    /\ \A i, j \in Popped :
          (SamePass(invoked[i], invoked[j]) /\ invoked[i].tid[4] < invoked[j].tid[4])
              => i < j
    /\ \A i \in Popped : \A j \in 1..Len(input_queue) :
          SamePass(invoked[i], input_queue[j])
              => invoked[i].tid[4] < input_queue[j].tid[4]
    /\ \A i, j \in 1..Len(input_queue) :
          (SamePass(input_queue[i], input_queue[j])
           /\ input_queue[i].tid[4] < input_queue[j].tid[4]) => i < j

\* Two different logical inputs bound to one key were both invoked for one event.
C3_Witness ==
    \E i, j \in 1..Len(invoked) :
        /\ i < j
        /\ invoked[i].kind = "behavior" /\ invoked[j].kind = "behavior"
        /\ SamePass(invoked[i], invoked[j])
        /\ invoked[i].logical # invoked[j].logical
        /\ BindOrder(invoked[i].physical)[1] = invoked[i].logical
        /\ BindOrder(invoked[i].physical)[2] = invoked[j].logical

\* ------------------------------------------------------------ C8
\* The triggers of the pass of t for logical input l: those still queued plus those
\* popped.
PassTriggers(t, l) ==
    CountIn(input_queue, LAMBDA u : SamePass(t, u) /\ u.logical = l)
    + Cardinality({i \in Popped : SamePass(t, invoked[i]) /\ invoked[i].logical = l})

\* The number of times l was bound to the physical input of t when t was enqueued.
TimesBound(t, l) ==
    Cardinality({i \in 1..t.k : BindOrder(t.physical)[i] = l})

AllTriggers ==
    {input_queue[i] : i \in 1..Len(input_queue)} \cup {invoked[i] : i \in Popped}

\* C8: bind appends and never overwrites or deduplicates: the list of every
\* physical input is the list of the logical inputs of all bind calls on it, in
\* call order; and one event gives a logical input bound k times exactly k
\* triggers, each queued or popped once.
C8_BindAccumulates ==
    /\ DOMAIN bindings = {p \in PhysicalInput : BindOrder(p) # <<>>}
    /\ \A p \in DOMAIN bindings : bindings[p] = BindOrder(p)
    /\ \A t \in AllTriggers : \A l \in Logicals :
          /\ t.k <= Len(BindOrder(t.physical))
          /\ PassTriggers(t, l) = TimesBound(t, l)

\* One logical input bound twice to one key had its behavior invoked twice for one
\* event on the key.
C8_Witness ==
    \E i, j \in 1..Len(invoked) :
        /\ i < j
        /\ invoked[i].kind = "behavior" /\ invoked[j].kind = "behavior"
        /\ SamePass(invoked[i], invoked[j])
        /\ invoked[i].logical = invoked[j].logical
        /\ BindOrder(invoked[i].physical) = <<invoked[i].logical, invoked[i].logical>>

\* ------------------------------------------------------------ C9
\* C9: one behavior per logical input, define overwrites: after define(l, b) the
\* definition of l is b; an update invokes, for each popped trigger, exactly the
\* behavior its logical input is defined with at that update, once; and define
\* and bind do not touch each other's table, so their order makes no difference.
C9_DefineOverwrites ==
    /\ [](/\ last.op = "define" =>
              /\ last.logical \in DOMAIN definitions
              /\ definitions[last.logical] = last.callback
          /\ last.op = "update" =>
              \A i \in ThisUpdate : invoked[i].kind = "behavior" =>
                  /\ invoked[i].logical \in DOMAIN definitions
                  /\ invoked[i].callback = definitions[invoked[i].logical]
          /\ \A i, j \in Popped : invoked[i].tid = invoked[j].tid => i = j)
    /\ [][/\ last'.op = "define" =>
              /\ bindings' = bindings
              /\ DOMAIN definitions' = DOMAIN definitions \cup {last'.logical}
              /\ \A l \in DOMAIN definitions :
                    l # last'.logical => definitions'[l] = definitions[l]
          /\ last'.op = "bind" => definitions' = definitions]_vars

\* A logical input was invoked with b1, redefined, and a later trigger of it
\* invoked b2.
C9_Witness ==
    /\ last.op = "update"
    /\ \E i, j \in 1..Len(invoked) :
          /\ i < j /\ j \in ThisUpdate
          /\ invoked[i].kind = "behavior" /\ invoked[j].kind = "behavior"
          /\ invoked[i].logical = invoked[j].logical
          /\ invoked[i].callback = "b1" /\ invoked[j].callback = "b2"

\* ------------------------------------------------------------ C10
\* The flags the callbacks that returned Ok have set.
Marks == {invoked[i].callback : i \in {j \in 1..Len(invoked) :
              invoked[j].kind # "skipped" /\ invoked[j].ok}}

\* C10: a trigger of a logical input without definition is consumed without error
\* and without effect on the application state, and the triggers behind it are
\* processed: update skips exactly the undefined ones, it stops and returns Err
\* only at a callback that failed, otherwise it empties the queue, and the state
\* holds only what the callbacks that ran did.
C10_UndefinedIsSkipped ==
    /\ state = Marks
    /\ \A i \in Popped : \A j \in 1..Len(input_queue) :
          invoked[i].tid # input_queue[j].tid
    /\ last.op = "update" =>
          /\ \A i \in ThisUpdate :
                /\ invoked[i].kind = "skipped" =>
                      invoked[i].logical \notin DOMAIN definitions
                /\ invoked[i].kind = "behavior" =>
                      invoked[i].logical \in DOMAIN definitions
          /\ result = "Err" =>
                /\ Len(invoked) \in ThisUpdate
                /\ invoked[Len(invoked)].kind # "skipped"
                /\ ~invoked[Len(invoked)].ok
          /\ result = "Ok" => input_queue = <<>>
          /\ result \in {"Ok", "Err"}
          /\ Cardinality(ThisUpdate \cap Popped) + Len(input_queue) = last.n

\* An update skipped a trigger without definition and then invoked the behaviors
\* of a trigger of the same event and of a trigger of a later event.
C10_Witness ==
    /\ last.op = "update" /\ result = "Ok"
    /\ \E i, j, m \in ThisUpdate :
          /\ i < j /\ j < m
          /\ invoked[i].kind = "skipped"
          /\ invoked[j].kind = "behavior" /\ invoked[j].tid[1] = invoked[i].tid[1]
          /\ invoked[m].kind = "behavior" /\ invoked[m].tid[1] > invoked[i].tid[1]

\* ------------------------------------------------------------ C4
EventOps ==
    {"mouse_button_down", "mouse_button_up", "mouse_motion", "mouse_wheel",
     "key_down", "key_up", "controller_button_down", "controller_button_up",
     "controller_axis"}

\* The physical identities the event of operation record l resolves to.
EventInputs(l) ==
    IF l.op = "mouse_wheel"
    THEN {MWheelX(l.args[1] > 0) : z \in {0} \ {l.args[1]}}
         \cup {MWheelY(l.args[2] > 0) : z \in {0} \ {l.args[2]}}
    ELSE {l.physical}

\* C4: an event on a physical input without binding enqueues no trigger, invokes
\* no behavior, leaves the application state alone and produces no error; and no
\* later update invokes anything for it, since an update invokes exactly the
\* triggers it pops off the front of the queue.
C4_UnboundIsNoOp ==
    [][/\ (last'.op \in EventOps /\ nevents' = nevents + 1
           /\ EventInputs(last') \cap DOMAIN bindings = {}) =>
              /\ input_queue' = input_queue
              /\ state' = state
              /\ invoked' = invoked
              /\ result' = result
              /\ last'.n = 0
       /\ (last'.op \in EventOps /\ nevents' = nevents + 1) =>
              /\ Len(input_queue') = Len(input_queue) + last'.n
              /\ SubSeq(input_queue', 1, Len(input_queue)) = input_queue
              /\ \A i \in Len(input_queue) + 1..Len(input_queue') :
                    input_queue'[i].physical \in EventInputs(last') \cap DOMAIN bindings
       /\ (last'.op = "update" /\ nupdates' = nupdates + 1) =>
              LET n == Len(input_queue) - Len(input_queue')
                  new == SelectSeq(SubSeq(invoked', Len(invoked) + 1, Len(invoked')),
                                   LAMBDA c : c.kind # "dynamics")
              IN /\ n >= 0
                 /\ input_queue' = SubSeq(input_queue, n + 1, Len(input_queue))
                 /\ SubSeq(invoked', 1, Len(invoked)) = invoked
                 /\ Len(new) = n
                 /\ \A i \in 1..n : new[i].tid = input_queue[i].tid
      ]_vars

\* An event on a physical input without binding was delivered while a binding of
\* another physical input exists and a trigger of it waits in the queue.
C4_Witness ==
    /\ last.op \in EventOps \ {"mouse_wheel"}
    /\ last.physical \notin DOMAIN bindings
    /\ last.n = 0
    /\ DOMAIN bindings # {}
    /\ input_queue # <<>>

\* ------------------------------------------------------------ C7
Abs(v) == IF v < 0 THEN -v ELSE v

\* The number of places of list s that hold l.
Occurrences(l, s) == Cardinality({i \in 1..Len(s) : s[i] = l})

\* The triggers the last event enqueued.
Enqueued == SubSeq(input_queue, Len(input_queue) - last.n + 1, Len(input_queue))

\* The notches of a wheel step of v that go to the direction d of its axis.
Notches(v, d) == IF (d /\ v > 0) \/ (~d /\ v < 0) THEN Abs(v) ELSE 0

\* C7: a wheel event of magnitude N on an axis enqueues, for each logical input
\* bound to the identity of that axis and direction, N triggers per binding, each
\* carrying the unit value Button(0, true); nothing for an axis of magnitude 0
\* and nothing for the opposite direction; and every trigger, queued or popped,
\* is there once.
C7_WheelUnitTicks ==
    /\ last.op = "mouse_wheel" =>
          /\ last.n <= Len(input_queue)
          /\ \A i \in 1..Len(Enqueued) :
                /\ Enqueued[i].value = ButtonValue(0, TRUE)
                /\ Enqueued[i].physical \in WheelInputs
                /\ Enqueued[i].tid[1] = nevents
          /\ \A d \in BOOLEAN, l \in Logicals :
                /\ CountIn(Enqueued, LAMBDA u : u.physical = MWheelX(d) /\ u.logical = l)
                      = Notches(last.args[1], d) * Occurrences(l, Lookup(MWheelX(d)))
                /\ CountIn(Enqueued, LAMBDA u : u.physical = MWheelY(d) /\ u.logical = l)
                      = Notches(last.args[2], d) * Occurrences(l, Lookup(MWheelY(d)))
    /\ \A t \in AllTriggers :
          t.physical \in WheelInputs => t.value = ButtonValue(0, TRUE)
    /\ \A i, j \in Popped : invoked[i].tid = invoked[j].tid => i = j
    /\ \A i, j \in 1..Len(input_queue) :
          input_queue[i].tid = input_queue[j].tid => i = j
    /\ \A i \in Popped : \A j \in 1..Len(input_queue) :
          invoked[i].tid # input_queue[j].tid

\* A wheel step of two notches in the positive X direction had the behavior of the
\* logical input bound to MWheelX(true) invoked twice, and the one bound to
\* MWheelX(false) not at all.
C7_Witness ==
    /\ last.op = "update" /\ input_queue = <<>>
    /\ \E l, m \in Logicals :
          /\ Lookup(MWheelX(TRUE)) = <<l>> /\ Lookup(MWheelX(FALSE)) = <<m>>
          /\ Cardinality({i \in Popped : invoked[i].kind = "behavior"
                             /\ invoked[i].physical = MWheelX(TRUE)
                             /\ invoked[i].logical = l}) = 2
          /\ \A i \in Popped : invoked[i].physical = MWheelX(TRUE)

\* ------------------------------------------------------------ C5
\* C5: the value of the axis is in [-1.0, 1.0] in every reachable state.
C5_ValueInRange == -One <= axis_value /\ axis_value <= One

\* ------------------------------------------------------------ C6
\* C6: right after a tick update the value is in [-1.0, 1.0], whatever the phase,
\* the value before and the three deltas.
C6_ClampedAfterUpdate ==
    axis_last.op = "update" => (-One <= axis_value /\ axis_value <= One)

\* A tick update was handed a value below -1.0 (left by the analog event of raw
\* -32768) and clamped it to -1.0.
C6_Witness ==
    /\ axis_last.op = "update"
    /\ axis_last.before < -One
    /\ axis_value = -One

\* ------------------------------------------------------------ C11
\* The events of the triggers of sequence s do not go back.
EventOrdered(s) ==
    \A i, j \in 1..Len(s) : i < j => s[i].tid[1] <= s[j].tid[1]

\* C11: update drains the queue in FIFO order: the triggers are popped in the
\* order their events were delivered, every trigger of an earlier event before
\* any trigger of a later one, and when update returns the queue is empty.
C11_FifoDrain ==
    /\ EventOrdered(input_queue)
    /\ \A i, j \in Popped : invoked[i].tid[1] < invoked[j].tid[1] => i < j
    /\ \A i \in Popped : \A j \in 1..Len(input_queue) :
          invoked[i].tid[1] <= input_queue[j].tid[1]
    /\ last.op = "update" => input_queue = <<>>

\* The order part alone: popped in delivery order, whatever update returns.
C11_FifoOrder ==
    /\ EventOrdered(input_queue)
    /\ \A i, j \in Popped : invoked[i].tid[1] < invoked[j].tid[1] => i < j
    /\ \A i \in Popped : \A j \in 1..Len(input_queue) :
          invoked[i].tid[1] <= input_queue[j].tid[1]

\* ------------------------------------------------------------ C12
\* C12: an event adapter only enqueues triples (logical, physical, value): it
\* invokes no behavior and leaves the application state, the tables and the
\* result of the last update alone, and what it appends are triggers of its own
\* physical input for logical inputs bound to it; behaviors run, and the
\* application state changes, only inside update.
C12_AdaptersOnlyEnqueue ==
    [][/\ (last'.op \in EventOps /\ nevents' = nevents + 1) =>
              /\ state' = state
              /\ invoked' = invoked
              /\ result' = result
              /\ definitions' = definitions
              /\ bindings' = bindings
              /\ dynamics' = dynamics
              /\ Len(input_queue') >= Len(input_queue)
              /\ SubSeq(input_queue', 1, Len(input_queue)) = input_queue
              /\ \A i \in Len(input_queue) + 1..Len(input_queue') :
                    /\ input_queue'[i].physical \in EventInputs(last')
                    /\ input_queue'[i].physical \in DOMAIN bindings
                    /\ \E m \in 1..Len(bindings[input_queue'[i].physical]) :
                          bindings[input_queue'[i].physical][m] = input_queue'[i].logical
                    /\ input_queue'[i].value.kind \in {"Axis", "Button", "XY"}
       /\ (invoked' # invoked \/ state' # state) =>
              (last'.op = "update" /\ nupdates' = nupdates + 1)
      ]_vars

\* An adapter has just enqueued a trigger of a logical input defined with b1, and
\* no behavior has run yet: the queue holds the trigger, the state is untouched.
C12_Witness ==
    /\ last.op \in EventOps
    /\ last.n >= 1
    /\ input_queue # <<>>
    /\ input_queue[Len(input_queue)].logical \in DOMAIN definitions
    /\ definitions[input_queue[Len(input_queue)].logical] = "b1"
    /\ state = {}
    /\ invoked = <<>>

\* ------------------------------------------------------------ C13
\* The triggers of controller events.
ControllerTriggers == {t \in AllTriggers : t.physical.kind \in {"CButton", "CAxis"}}

\* C13: controller bindings disambiguate by device: the identity a controller
\* trigger was bound under belongs to one device instance, so the events of two
\* different instances never trigger the logical inputs of the same binding key.
C13_InstanceDisambiguates ==
    \A t, u \in ControllerTriggers :
        (t.physical = u.physical /\ t.logical = u.logical)
            => t.value.inst = u.value.inst

\* ------------------------------------------------------------ C14
\* The logical inputs of the triggers of sequence s.
LogicalsOf(s) == [i \in 1..Len(s) |-> s[i].logical]

\* The same key with the other repeat flag.
OtherRepeat(physical) == Key(physical.id, ~physical.flag)

\* C14: key bindings with different repeat flags are independent: a key-down or
\* key-up event of (keycode k, repeat r) enqueues exactly the logical inputs bound
\* to Key(k, r), in bind order, each with the identity Key(k, r) and the value
\* Button(0, down), and none of those bound only to Key(k, not r).
C14_RepeatFlagsIndependent ==
    last.op \in {"key_down", "key_up"} =>
        /\ last.physical \in KeyInputs
        /\ last.n <= Len(input_queue)
        /\ LogicalsOf(Enqueued) = BindOrder(last.physical)
        /\ \A i \in 1..Len(Enqueued) :
              /\ Enqueued[i].physical = last.physical
              /\ Enqueued[i].value = ButtonValue(0, last.op = "key_down")
        /\ \A l \in Logicals :
              (Occurrences(l, BindOrder(OtherRepeat(last.physical))) > 0
               /\ Occurrences(l, BindOrder(last.physical)) = 0)
                  => Occurrences(l, LogicalsOf(Enqueued)) = 0

\* With L1 bound to Key(K, true) and L2 to Key(K, false), a key-up event of
\* (K, repeat) enqueued L1 alone.
C14_Witness ==
    /\ last.op = "key_up"
    /\ last.physical = Key("K", TRUE)
    /\ BindOrder(Key("K", TRUE)) = <<"L1">>
    /\ BindOrder(Key("K", FALSE)) = <<"L2">>
    /\ LogicalsOf(Enqueued) = <<"L1">>

\* ------------------------------------------------------------ C15
\* The last axis operation was the digital event op with the button down / up.
Digital(op, down) ==
    /\ axis_last.op = op
    /\ axis_last.value.kind = "Button"
    /\ axis_last.value.down = down

Phases == {"Increase", "Decrease", "Relax", "Ignore"}

\* C15: a positive-input-down event sets the phase to Increase and a
\* negative-input-down event sets it to Decrease, whatever the phase before.
C15_PressSetsPhase ==
    /\ axis_last.phase \in Phases
    /\ Digital("input_pos", TRUE) => axis_phase = "Increase"
    /\ Digital("input_neg", TRUE) => axis_phase = "Decrease"

\* The negative input was pressed while the axis was increasing, and the phase is
\* now Decrease.
C15_Witness ==
    /\ Digital("input_neg", TRUE)
    /\ axis_last.phase = "Increase"
    /\ axis_phase = "Decrease"

\* ------------------------------------------------------------ C16
\* C16: the release transitions are guarded: positive-input-up sets the phase to
\* Relax unless the phase is Decrease, which stays; negative-input-up sets it to
\* Relax unless the phase is Increase, which stays.
C16_ReleaseIsGuarded ==
    /\ Digital("input_pos", FALSE) =>
          axis_phase = (IF axis_last.phase = "Decrease" THEN "Decrease" ELSE "Relax")
    /\ Digital("input_neg", FALSE) =>
          axis_phase = (IF axis_last.phase = "Increase" THEN "Increase" ELSE "Relax")

\* The positive input was released while the axis was decreasing, and the phase
\* is still Decrease.
C16_Witness ==
    /\ Digital("input_pos", FALSE)
    /\ axis_last.phase = "Decrease"
    /\ axis_phase = "Decrease"

\* ------------------------------------------------------------ C17
\* C17: releasing one direction while the opposite one is still held leaves the
\* axis driven in the held direction: after the release of the negative input
\* with the positive one held the phase is Increase, after the release of the
\* positive input with the negative one held it is Decrease, whichever of the two
\* was pressed last.
C17_HeldDirectionDrives ==
    /\ (Digital("input_neg", FALSE) /\ pos_held) => axis_phase = "Increase"
    /\ (Digital("input_pos", FALSE) /\ neg_held) => axis_phase = "Decrease"

\* ------------------------------------------------------------ C18
\* What "approximately" allows: a thousandth of 1.0.
Tolerance == One \div 1000

\* The last axis operation was an analog event with an Axis value.
Analog == axis_last.op = "input_analog" /\ axis_last.value.kind = "Axis"

\* C18: an analog event with raw value r sets the phase to Ignore, whatever the
\* phase before, and the value to r / 32767 (r whole units of 1 / 32767, each
\* AxisResolution units of the model); on a new axis (value 0.0, phase Ignore)
\* raw 16384 gives a value within Tolerance of 0.5.
C18_AnalogSetsValue ==
    Analog =>
        /\ axis_phase = "Ignore"
        /\ axis_value % AxisResolution = 0
        /\ axis_value \div AxisResolution = axis_last.value.num[1]
        /\ (axis_last.before = 0 /\ axis_last.phase = "Ignore"
            /\ axis_last.value.num[1] = 16384) =>
               /\ 2 * axis_value - One <= 2 * Tolerance
               /\ One - 2 * axis_value <= 2 * Tolerance

\* The analog event with raw 16384 came to an axis as new, and the axis now has
\* phase Ignore and a value of about 0.5.
C18_Witness ==
    /\ Analog
    /\ axis_last.before = 0
    /\ axis_last.phase = "Ignore"
    /\ axis_last.value.num[1] = 16384
    /\ axis_phase = "Ignore"
    /\ axis_value > 0
    /\ 2 * axis_value - One <= 2 * Tolerance
    /\ One - 2 * axis_value <= 2 * Tolerance

\* ------------------------------------------------------------ C19
\* C19: a tick update in phase Ignore leaves the value as it was, for every value
\* an analog event can leave, the one of raw -32768 included.
C19_IgnoreKeepsValue ==
    (axis_last.op = "update" /\ axis_last.phase = "Ignore")
        => axis_value = axis_last.before

\* ------------------------------------------------------------ C20
\* The last axis operation was a tick update in phase, with deltas that are rates
\* (none negative).
Tick(phase) ==
    /\ axis_last.op = "update"
    /\ axis_last.phase = phase
    /\ \A i \in 1..3 : axis_last.deltas[i] >= 0

\* One Relax tick as stated: toward 0 by relax_delta, never across it.
RelaxedBy(val, relax_delta) ==
    IF Abs(val) <= relax_delta THEN 0
    ELSE IF val > 0 THEN val - relax_delta ELSE val + relax_delta

\* C20: in phase Relax one tick moves the value toward 0 by relax-delta without
\* crossing zero: exactly 0.0 if |value| <= relax-delta, otherwise the same sign
\* and the magnitude |value| - relax-delta.
C20_RelaxTowardZero ==
    Tick("Relax") => axis_value = RelaxedBy(axis_last.before, axis_last.deltas[3])

\* The same for the values of [-1.0, 1.0] alone.
C20_RelaxInRange ==
    (Tick("Relax") /\ -One <= axis_last.before /\ axis_last.before <= One)
        => axis_value = RelaxedBy(axis_last.before, axis_last.deltas[3])

\* ------------------------------------------------------------ C21
\* x brought into [-1.0, 1.0].
InRange(x) == IF x > One THEN One ELSE IF x < -One THEN -One ELSE x

\* The last axis operation was a tick update in phase, whatever the deltas.
AnyTick(phase) == axis_last.op = "update" /\ axis_last.phase = phase

\* C21: in phase Increase one tick adds accelerate-delta to a value above 0.0 and
\* reverse-delta to a value of 0.0 or below, and the sum is clamped to [-1.0, 1.0].
C21_IncreaseStep ==
    AnyTick("Increase") =>
        axis_value = InRange(axis_last.before
                             + (IF axis_last.before > 0 THEN axis_last.deltas[1]
                                ELSE axis_last.deltas[2]))

\* A tick in phase Increase at exactly 0.0, with accelerate-delta 0.1 and
\* reverse-delta 0.2, moved the value to 0.2.
C21_Witness ==
    /\ AnyTick("Increase")
    /\ axis_last.before = 0
    /\ axis_last.deltas[1] = One \div 10
    /\ axis_last.deltas[2] = One \div 5
    /\ axis_value = One \div 5

\* ------------------------------------------------------------ C22
\* C22: in phase Decrease one tick subtracts accelerate-delta from a value below
\* 0.0 and reverse-delta from a value of 0.0 or above, and the difference is
\* clamped to [-1.0, 1.0]; a Decrease tick on v gives minus what an Increase tick
\* gives on -v with the same deltas.
C22_DecreaseMirrorsIncrease ==
    AnyTick("Decrease") =>
        /\ axis_value = InRange(axis_last.before
                                - (IF axis_last.before < 0 THEN axis_last.deltas[1]
                                   ELSE axis_last.deltas[2]))
        /\ axis_value = -Clamp(AxisStep(-axis_last.before, "Increase",
                                        axis_last.deltas[1], axis_last.deltas[2],
                                        axis_last.deltas[3]), -One, One)

\* A tick in phase Decrease at exactly 0.0, with accelerate-delta 0.1 and
\* reverse-delta 0.2, moved the value to -0.2.
C22_Witness ==
    /\ AnyTick("Decrease")
    /\ axis_last.before = 0
    /\ axis_last.deltas[1] = One \div 10
    /\ axis_last.deltas[2] = One \div 5
    /\ axis_value = -(One \div 5)

\* ------------------------------------------------------------ C23
\* The entries of kind in the log of the update that ran last, in log order.
ThisUpdateLog(kind) ==
    SelectSeq(invoked, LAMBDA c : c.upd = nupdates /\ c.kind = kind)

\* C23: within one update every registered dynamics callback runs, in
\* registration order, before the behavior of any queued trigger, also when the
\* queue is empty.
C23_DynamicsFirst ==
    last.op = "update" =>
        /\ [i \in 1..Len(ThisUpdateLog("dynamics")) |->
               ThisUpdateLog("dynamics")[i].callback] = dynamics
        /\ \A i, j \in ThisUpdate :
              (invoked[i].kind = "dynamics" /\ invoked[j].kind # "dynamics") => i < j

\* The same for the updates in which no dynamics callback returned an error.
C23_DynamicsFirstIfOk ==
    (last.op = "update"
     /\ \A i \in ThisUpdate : invoked[i].kind = "dynamics" => invoked[i].ok) =>
        /\ [i \in 1..Len(ThisUpdateLog("dynamics")) |->
               ThisUpdateLog("dynamics")[i].callback] = dynamics
        /\ \A i, j \in ThisUpdate :
              (invoked[i].kind = "dynamics" /\ invoked[j].kind # "dynamics") => i < j

\* ------------------------------------------------------------ C24
DownOps == {"mouse_button_down", "key_down", "controller_button_down"}
UpOps == {"mouse_button_up", "key_up", "controller_button_up"}

\* The instance id the event of operation record l puts in its value.
EventInstance(l) ==
    IF l.op \in {"controller_button_down", "controller_button_up"} THEN l.args[1]
    ELSE 0

\* C24: every trigger carries the identity and the value of its event: a down
\* event of a mouse button, a key or a controller button enqueues triggers with
\* its own physical identity and Button(true), an up event with Button(false);
\* and update hands every behavior the identity and value of the trigger it
\* pops, so a logical input bound from several physical inputs is told which
\* one triggered it.
C24_TriggerCarriesEvent ==
    [][/\ (last'.op \in DownOps \cup UpOps /\ nevents' = nevents + 1) =>
              /\ Len(input_queue') = Len(input_queue) + last'.n
              /\ \A i \in Len(input_queue) + 1..Len(input_queue') :
                    /\ input_queue'[i].physical = last'.physical
                    /\ input_queue'[i].value
                          = ButtonValue(EventInstance(last'), last'.op \in DownOps)
       /\ (last'.op = "update" /\ nupdates' = nupdates + 1) =>
              LET new == SelectSeq(SubSeq(invoked', Len(invoked) + 1, Len(invoked')),
                                   LAMBDA c : c.kind # "dynamics")
              IN /\ Len(new) <= Len(input_queue)
                 /\ \A i \in 1..Len(new) :
                       /\ new[i].logical = input_queue[i].logical
                       /\ new[i].physical = input_queue[i].physical
                       /\ new[i].value = input_queue[i].value
      ]_vars

\* L1 is bound to a key and to a mouse button; its behavior was invoked for the
\* release of the key with Key and Button(false), and for the press of the
\* mouse button with MButton and Button(true).
C24_Witness ==
    \E i, j \in 1..Len(invoked) :
        /\ invoked[i].kind = "behavior" /\ invoked[j].kind = "behavior"
        /\ invoked[i].logical = "L1" /\ invoked[j].logical = "L1"
        /\ invoked[i].physical = Key("K", FALSE)
        /\ invoked[i].value = ButtonValue(0, FALSE)
        /\ invoked[j].physical = MButton("Left")
        /\ invoked[j].value = ButtonValue(0, TRUE)

\* ------------------------------------------------------------ C25
\* The log entries a step appends for popped triggers, in order.
NewPopped ==
    SelectSeq(SubSeq(invoked', Len(invoked) + 1, Len(invoked')),
              LAMBDA c : c.kind # "dynamics")

NewLog == SubSeq(invoked', Len(invoked) + 1, Len(invoked'))

\* C26: when a dynamics callback returns an error update returns that error: the
\* failing callback is the last thing the update invoked, before it ran only the
\* dynamics callbacks registered before it, in order, and no behavior; the
\* trigger queue is exactly as it was.
C26_DynamicsErrorStopsUpdate ==
    [][(last'.op = "update" /\ nupdates' = nupdates + 1
        /\ \E i \in 1..Len(NewLog) : NewLog[i].kind = "dynamics" /\ ~NewLog[i].ok) =>
          /\ result' = "Err"
          /\ input_queue' = input_queue
          /\ Len(NewLog) <= Len(dynamics)
          /\ \A i \in 1..Len(NewLog) :
                /\ NewLog[i].kind = "dynamics"
                /\ NewLog[i].callback = dynamics[i]
                /\ NewLog[i].ok = (i < Len(NewLog))
          /\ state' = state \cup {NewLog[i].callback : i \in 1..Len(NewLog) - 1}
      ]_vars

\* An update with a trigger of a defined logical input in the queue ran the
\* failing dynamics callback registered first, and neither the dynamics callback
\* registered second nor the behavior; the trigger is still in the queue.
C26_Witness ==
    /\ last.op = "update"
    /\ result = "Err"
    /\ dynamics = <<"dynfail", "dyn">>
    /\ input_queue # <<>>
    /\ Head(input_queue).logical \in DOMAIN definitions
    /\ definitions[Head(input_queue).logical] = "b1"
    /\ Cardinality(ThisUpdate) = 1
    /\ state = {}

\* ------------------------------------------------------------ C27
\* The number of behavior invocations of logical input l in log s.
Invocations(s, l) == CountIn(s, LAMBDA c : c.kind = "behavior" /\ c.logical = l)

\* The number of triggers of logical input l in queue s.
Waiting(s, l) == CountIn(s, LAMBDA t : t.logical = l)

\* C27: every enqueued trigger is invoked at most once: no trigger is in the log
\* twice, none that was popped is still queued, every invocation of a logical
\* input takes one of its triggers off the queue, and only update invokes; so
\* the invocations of a logical input never exceed the triggers enqueued for it,
\* also across updates that stopped at an error.
C27_AtMostOnce ==
    /\ [](/\ \A i, j \in Popped : invoked[i].tid = invoked[j].tid => i = j
          /\ \A i \in Popped : \A j \in 1..Len(input_queue) :
                invoked[i].tid # input_queue[j].tid
          /\ \A i, j \in 1..Len(input_queue) :
                input_queue[i].tid = input_queue[j].tid => i = j)
    /\ [][\A l \in Logicals :
            /\ Invocations(invoked', l) >= Invocations(invoked, l)
            /\ Invocations(invoked', l) > Invocations(invoked, l) =>
                  /\ last'.op = "update" /\ nupdates' = nupdates + 1
                  /\ Invocations(invoked', l) - Invocations(invoked, l)
                        <= Waiting(input_queue, l) - Waiting(input_queue', l)]_vars

\* Two updates ran, the first stopped at a failing behavior, the second emptied
\* the queue, and three triggers were invoked in all.
C27_Witness ==
    /\ last.op = "update" /\ nupdates = 2
    /\ result = "Ok" /\ input_queue = <<>>
    /\ \E i \in Popped : invoked[i].upd = 1 /\ ~invoked[i].ok
    /\ Cardinality({i \in Popped : invoked[i].kind = "behavior"}) = 3

\* ------------------------------------------------------------ C28
\* C28: a tick update never changes the phase and a positive or negative digital
\* event never changes the value: the phase changes only in an input event, the
\* value only in a tick update or an analog event.
C28_AxisFrame ==
    [][/\ axis_last'.op = "update" => axis_phase' = axis_phase
       /\ axis_last'.op \in {"input_pos", "input_neg"} => axis_value' = axis_value
       /\ axis_phase' # axis_phase =>
             axis_last'.op \in {"input_pos", "input_neg", "input_analog"}
       /\ axis_value' # axis_value => axis_last'.op \in {"update", "input_analog"}
      ]_vars

\* A tick in phase Relax brought the value from elsewhere to exactly 0.0, and the
\* phase is still Relax.
C28_Witness ==
    /\ axis_last.op = "update"
    /\ axis_last.phase = "Relax"
    /\ axis_phase = "Relax"
    /\ axis_last.before > 0
    /\ axis_value = 0

RECURSIVE Repeat(_, _)
Repeat(n, s) == IF n <= 0 THEN <<>> ELSE s \o Repeat(n - 1, s)

\* The triggers of one wheel axis as (identity, logical input) pairs: for each of
\* the |v| ticks the logical inputs bound to the identity of the direction of v,
\* in bind order.
TickMajor(positive, negative, v) ==
    LET physical == IF v > 0 THEN positive ELSE negative
        once == [i \in 1..Len(BindOrder(physical)) |->
                    <<physical, BindOrder(physical)[i]>>]
    IN Repeat(Abs(v), once)

\* C30: one wheel event enqueues all the triggers of its X axis before any of its
\* Y axis, and on each axis the triggers are tick-major: for each of the N unit
\* ticks every logical input bound to the direction, in bind order, then the
\* next tick.
C30_WheelOrder ==
    last.op = "mouse_wheel" =>
        /\ last.n <= Len(input_queue)
        /\ [i \in 1..Len(Enqueued) |-> <<Enqueued[i].physical, Enqueued[i].logical>>]
              = TickMajor(MWheelX(TRUE), MWheelX(FALSE), last.args[1])
                \o TickMajor(MWheelY(TRUE), MWheelY(FALSE), last.args[2])

\* A wheel event of two notches on X with two logical inputs bound to
\* MWheelX(true) enqueued L1, L2, L1, L2.
C30_Witness ==
    /\ last.op = "mouse_wheel"
    /\ last.args[1] = 2
    /\ BindOrder(MWheelX(TRUE)) = <<"L1", "L2">>
    /\ Len(input_queue) >= 4
    /\ LogicalsOf(Enqueued) = <<"L1", "L2", "L1", "L2">>

\* ------------------------------------------------------------ C31
\* C31: an axis input handler given a value of the wrong kind does nothing and
\* returns Ok: axis_input_pos and axis_input_neg with a value that is no Button
\* leave the phase (and the value) as they were, axis_input_analog with a value
\* that is no Axis leaves phase and value as they were.
C31_WrongKindIsNoOp ==
    /\ (axis_last.op \in {"input_pos", "input_neg"} /\ axis_last.value.kind # "Button") =>
          /\ axis_phase = axis_last.phase
          /\ axis_value = axis_last.before
          /\ axis_result = "Ok"
    /\ (axis_last.op = "input_analog" /\ axis_last.value.kind # "Axis") =>
          /\ axis_phase = axis_last.phase
          /\ axis_value = axis_last.before
          /\ axis_result = "Ok"

\* The analog handler was given Button(true) while the axis was increasing at a
\* value other than 0.0 and 1.0: phase and value are as before, the result is Ok.
C31_Witness ==
    /\ axis_last.op = "input_analog"
    /\ axis_last.value.kind = "Button" /\ axis_last.value.down
    /\ axis_last.phase = "Increase" /\ axis_phase = "Increase"
    /\ axis_value = axis_last.before
    /\ axis_value # 0 /\ axis_value # One
    /\ axis_result = "Ok"

====
